---- MODULE Spec2Model ----
(***************************************************************************)
(* Background-asset selection of the video toolkit: the combination ledger *)
(* (pexels_used_assets.json), the duration-constrained selector            *)
(* get_pexels_videos_for_duration and the callers that consume it.         *)
(*                                                                         *)
(* Video ids are strings; the ledger key of a list of ids is               *)
(* str(frozenset(ids)), i.e. the ids in the iteration order of a CPython   *)
(* hash set.  That order is modelled by the set's open-addressing table:   *)
(* the per-process string hash (hashSeed) gives the first slot, collisions *)
(* probe on, and the table is read out in slot order.                      *)
(***************************************************************************)
EXTENDS Integers, Sequences, FiniteSets, TLC

\* ---------------------------------------------------------------- bounds
MaxFiles == 2       \* entries in the video_files of a search result
MaxFetches == 3     \* requests download_asset sends per filename
HashRange == 2      \* string hashes are drawn from 0 .. HashRange-1
MaxVideos == 3      \* max_videos / n_videos range over 1 .. MaxVideos
MaxCalls == 2       \* calls that may write the ledger, per behaviour
MaxLen == 2         \* length of the id lists handed to the ledger functions
MaxJobs == 1        \* calls followed in detail (stages, search response), per behaviour

\* ---------------------------------------------------------------- data
Ids == {"a", "b", "c"}
ScenarioIds == {"a", "b", "c", "d"}

\* Python compares the (string) ids lexicographically in sorted().
IdRank == [a |-> 1, b |-> 2, c |-> 3, d |-> 4]

\* duration of every video the search can return, per deployment
Catalogue1 == [a |-> 5, b |-> 4, c |-> 6]
Catalogue2 == [a |-> 1, b |-> 5, c |-> 5]
Catalogues == {Catalogue1, Catalogue2}
Scenario == [dur |-> [a |-> 5, b |-> 4, c |-> 6, d |-> 3], target |-> 12, max_videos |-> 3]

\* total_duration: pexels_montage asks for 9999, chroma_key_video for the
\* foreground's duration (plus the fade padding)
MontageTarget == 9999
Targets == {0, 5, 9}
ZeroTargets == {-1, 0}

\* chroma_key_video: max_videos=10, the default transition, the duration of
\* the foreground video
ChromaMaxVideos == 10
Transition == 1
FgDurations == {3, 7}

Range(s) == { s[i] : i \in DOMAIN s }

Perms(S) == { s \in [1 .. Cardinality(S) -> S] : Range(s) = S }

Lists(S, n) == UNION { [1 .. k -> S] : k \in 0 .. n }

RECURSIVE SumDur(_, _)
SumDur(ids, d) == IF ids = <<>> THEN 0 ELSE d[Head(ids)] + SumDur(Tail(ids), d)

\* ---------------------------------------------------------------- str(frozenset(ids))
TableSize == 8
EmptySlot == ""
EmptyTable == [i \in 0 .. TableSize - 1 |-> EmptySlot]

\* set_add_entry's probe loop on a table without linear probes (mask 7):
\* perturb >>= 5; i = (i * 5 + 1 + perturb) & mask
RECURSIVE FindSlot(_, _, _, _)
FindSlot(table, id, i, perturb) ==
    IF table[i] = EmptySlot \/ table[i] = id
    THEN i
    ELSE FindSlot(table, id, (i * 5 + 1 + (perturb \div 32)) % TableSize, perturb \div 32)

SetAdd(table, id, seed) ==
    [table EXCEPT ![FindSlot(table, id, seed[id] % TableSize, seed[id])] = id]

RECURSIVE Frozenset(_, _, _)
Frozenset(table, ids, seed) ==
    IF ids = <<>> THEN table
    ELSE Frozenset(SetAdd(table, Head(ids), seed), Tail(ids), seed)

RECURSIVE TableOrder(_, _)
TableOrder(table, i) ==
    IF i >= TableSize THEN <<>>
    ELSE (IF table[i] = EmptySlot THEN <<>> ELSE <<table[i]>>) \o TableOrder(table, i + 1)

\* key = str(frozenset(video_ids)): the ids in the set's iteration order
Key(ids, seed) == TableOrder(Frozenset(EmptyTable, ids, seed), 0)

\* ---------------------------------------------------------------- the ledger file
AbsentFile == [kind |-> "absent", keys |-> {}]
GarbageFile == [kind |-> "garbage", keys |-> {}]
MapFile(keys) == [kind |-> "map", keys |-> keys]

\* a file that exists and is not the mapping _save_used_assets writes:
\* valid JSON that is an array or a string (no key in it), valid JSON that is
\* null or a number, and a file open() or read() raises on (a directory, no
\* permission, bytes that are not UTF-8)
ListFile == [kind |-> "list", keys |-> {}]
ScalarFile == [kind |-> "scalar", keys |-> {}]
UnreadableFile == [kind |-> "unreadable", keys |-> {}]
CorruptFiles == {GarbageFile, ListFile, ScalarFile, UnreadableFile}

\* a missing file and a file json cannot decode both load as {}
LoadUsedAssets(file) == IF file.kind = "map" THEN file.keys ELSE {}

\* only json.JSONDecodeError is caught: the OSError or UnicodeDecodeError of
\* open / read leaves _load_used_assets
LoadRaises(file) == file.kind = "unreadable"

\* line 49, `key in data`: a TypeError when data is None or a number
IsUsedRaises(file, ids) == ids # <<>> /\ (LoadRaises(file) \/ file.kind = "scalar")

\* line 40, `data[key] = True`: a TypeError when data is not a dict
RegisterRaises(file, ids) ==
    ids # <<>> /\ (LoadRaises(file) \/ file.kind \in {"scalar", "list"})

\* open(..., "w") truncates before json.dump writes; an IOError is swallowed
SaveOutcomes == {"ok", "open_fails", "write_fails"}
SaveUsedAssets(file, data, outcome) ==
    CASE outcome = "ok" -> MapFile(data)
      [] outcome = "open_fails" -> file
      [] outcome = "write_fails" -> GarbageFile

\* mutant: the guard against the empty list is missing
RegisterWithoutEmptyCheck(file, ids, seed, outcome) ==
    SaveUsedAssets(file, LoadUsedAssets(file) \cup {Key(ids, seed)}, outcome)

RegisterUsedCombination(file, ids, seed, outcome) ==
    IF ids = <<>> THEN file
    ELSE SaveUsedAssets(file, LoadUsedAssets(file) \cup {Key(ids, seed)}, outcome)

IsCombinationUsed(file, ids, seed) ==
    IF ids = <<>> THEN FALSE
    ELSE Key(ids, seed) \in LoadUsedAssets(file)

\* ---------------------------------------------------------------- the search
\* what requests.get can come back with when the search does not deliver a
\* list of videos: an exception of the transport, a 4xx / 5xx status, a body
\* that is not JSON, JSON that is not an object (or whose "videos" cannot be
\* iterated), an object without "videos"
FailedResponses == {"transport_error", "http_error", "not_json", "not_object", "no_videos"}

\* lines 63-78: the try block holds requests.get and raise_for_status only;
\* response.json(), data.get and the loop run outside it
SearchRaises(response) == response \in {"not_json", "not_object"}

\* one entry of video_files: width and height (0: missing or null), and
\* whether it has a link
Widths == {0, 640, 1280, 1920}
Heights == {0, 360, 1440}
Files == [width : Widths, height : Heights, link : BOOLEAN]
NoFile == [width |-> 0, height |-> 0, link |-> FALSE]

\* lines 111 and 118: the two list comprehensions
HdLandscape(f) == f.width # 0 /\ f.height # 0 /\ f.width >= 1280 /\ f.width > f.height
Landscape(f) == f.width # 0 /\ f.height # 0 /\ f.width > f.height

\* valid_files.sort(key=width, reverse=True): stable, widest first
RECURSIVE InsertByWidth(_, _)
InsertByWidth(s, f) ==
    IF s = <<>> THEN <<f>>
    ELSE IF f.width >= Head(s).width THEN <<f>> \o s
    ELSE <<Head(s)>> \o InsertByWidth(Tail(s), f)

RECURSIVE SortByWidthDesc(_)
SortByWidthDesc(s) ==
    IF s = <<>> THEN <<>> ELSE InsertByWidth(SortByWidthDesc(Tail(s)), Head(s))

\* mutant: the fallback takes the widest file of any orientation
ChosenFileAnyFallback(video_files) ==
    LET hd == SelectSeq(video_files, HdLandscape)
        valid == IF hd # <<>> THEN hd ELSE SelectSeq(video_files, LAMBDA f : f.width # 0)
    IN  IF valid = <<>> THEN NoFile ELSE Head(SortByWidthDesc(valid))

\* lines 104-126: chosen_file, NoFile when the video is skipped
ChosenFile(video_files) ==
    LET hd == SelectSeq(video_files, HdLandscape)
        valid == IF hd # <<>> THEN hd ELSE SelectSeq(video_files, Landscape)
    IN  IF valid = <<>> THEN NoFile ELSE Head(SortByWidthDesc(valid))

\* lines 78-133: the video becomes a candidate.  `person` stands for a hit of
\* the tag, url or user-name filter, duration 0 for a missing duration
IsCandidate(video) ==
    /\ ~video.person
    /\ ChosenFile(video.files) # NoFile
    /\ ChosenFile(video.files).link
    /\ video.duration # 0

\* the "id" of an entry of data["videos"] as the JSON has it, a number or a
\* string; video_id = str(video.get("id")) gives 7 and "7" the same id
RawIds == {[type |-> "int", text |-> "a"]} \cup [type : {"str"}, text : Ids]
Str(raw) == raw.text

\* an entry of the response: its id, and whether lines 83-131 let it through
\* (IsCandidate)
Entries == [id : RawIds, usable : BOOLEAN]

\* mutant: seen_ids is not consulted
RECURSIVE CandidatesNoSeen(_, _)
CandidatesNoSeen(videos, seen) ==
    IF videos = <<>> THEN <<>>
    ELSE LET video_id == Str(Head(videos).id)
         IN  IF ~Head(videos).usable
             THEN CandidatesNoSeen(Tail(videos), seen)
             ELSE <<video_id>> \o CandidatesNoSeen(Tail(videos), seen \cup {video_id})

\* lines 76-133: the candidates, in the order of the response; an id enters
\* seen_ids when its entry is appended
RECURSIVE Candidates(_, _)
Candidates(videos, seen) ==
    IF videos = <<>> THEN <<>>
    ELSE LET video_id == Str(Head(videos).id)
         IN  IF video_id \in seen \/ ~Head(videos).usable
             THEN Candidates(Tail(videos), seen)
             ELSE <<video_id>> \o Candidates(Tail(videos), seen \cup {video_id})

\* random.shuffle(candidates): every order of the list
Shuffles(s) == { [i \in DOMAIN s |-> s[p[i]]] : p \in Perms(DOMAIN s) }

\* the link of the chosen file of a video
Url(id) == <<"https://videos.pexels.com/", id>>

\* ---------------------------------------------------------------- download_asset
\* a filename is a string of characters; the reserved ones are replaced
Reserved == {"/", "\\", ":", "*", "?", "\"", "<", ">", "|"}
SafeFilename(filename) ==
    [i \in DOMAIN filename |-> IF filename[i] \in Reserved THEN "_" ELSE filename[i]]

Filenames == {<<"a">>, <<"b", "/">>, <<"b", "_">>}
Paths == { SafeFilename(filename) : filename \in Filenames }

\* what is at a path: nothing ever ("absent"), nothing since download_asset
\* removed it ("removed"), the first chunks of a download ("partial"), the
\* whole file ("complete")
Exists(state) == state \in {"partial", "complete"}

NoAssetFiles == [path \in Paths |-> "absent"]
NoTransfers == [filename \in Filenames |-> 0]

\* how the download goes: to the end; requests.get or raise_for_status raises
\* (a RequestException); iter_content raises a RequestException after the
\* first chunks and os.remove works, or fails; open or f.write raises OSError
DownloadOutcomes == {"ok", "request_fails", "stream_fails", "remove_fails", "write_fails"}

\* mutant: the file on disk is not looked at
DownloadAssetAlways(state, outcome) ==
    CASE outcome = "ok" -> [file |-> "complete", network |-> TRUE, raised |-> FALSE]
      [] outcome = "request_fails" -> [file |-> state, network |-> TRUE, raised |-> TRUE]
      [] outcome = "stream_fails" -> [file |-> "removed", network |-> TRUE, raised |-> TRUE]
      [] outcome \in {"remove_fails", "write_fails"} ->
            [file |-> "partial", network |-> TRUE, raised |-> TRUE]

\* download_asset on a path in `state`: the file afterwards, whether a request
\* was sent, whether the call raised.  Only a RequestException is caught and
\* followed by the removal of the file.
DownloadAsset(state, outcome) ==
    IF Exists(state) THEN [file |-> state, network |-> FALSE, raised |-> FALSE]
    ELSE CASE outcome = "ok" -> [file |-> "complete", network |-> TRUE, raised |-> FALSE]
           [] outcome = "request_fails" -> [file |-> state, network |-> TRUE, raised |-> TRUE]
           [] outcome = "stream_fails" -> [file |-> "removed", network |-> TRUE, raised |-> TRUE]
           [] outcome \in {"remove_fails", "write_fails"} ->
                 [file |-> "partial", network |-> TRUE, raised |-> TRUE]

\* ---------------------------------------------------------------- the selector
\* sorted(ids): insertion sort on the ids' string order
RECURSIVE InsertSorted(_, _)
InsertSorted(s, id) ==
    IF s = <<>> THEN <<id>>
    ELSE IF IdRank[id] < IdRank[Head(s)] THEN <<id>> \o s
    ELSE <<Head(s)>> \o InsertSorted(Tail(s), id)

RECURSIVE Sorted(_)
Sorted(s) == IF s = <<>> THEN <<>> ELSE InsertSorted(Sorted(Tail(s)), Head(s))

\* lines 151-167: walk the shuffled candidates, keeping every candidate whose
\* addition leaves the combination unused; return at the first point where the
\* duration is met and the count is within max_videos
RECURSIVE FreshLoop(_, _, _, _, _, _, _)
FreshLoop(cands, combo, d, file, seed, target, max_videos) ==
    IF cands = <<>> THEN [found |-> FALSE, ids |-> <<>>]
    ELSE LET id == Head(cands)
             temp == Sorted(combo \o <<id>>)
         IN  IF ~IsCombinationUsed(file, temp, seed)
             THEN LET next == combo \o <<id>>
                  IN  IF SumDur(next, d) >= target /\ Len(next) <= max_videos
                      THEN [found |-> TRUE, ids |-> next]
                      ELSE FreshLoop(Tail(cands), next, d, file, seed, target, max_videos)
             ELSE FreshLoop(Tail(cands), combo, d, file, seed, target, max_videos)

\* candidates.sort(key=duration, reverse=True): stable, longest first
RECURSIVE InsertByDuration(_, _, _)
InsertByDuration(s, id, d) ==
    IF s = <<>> THEN <<id>>
    ELSE IF d[id] >= d[Head(s)] THEN <<id>> \o s
    ELSE <<Head(s)>> \o InsertByDuration(Tail(s), id, d)

\* mutant: the fallback keeps the shuffled order
SortByDurationMissing(s, d) == s

RECURSIVE SortByDurationDesc(_, _)
SortByDurationDesc(s, d) ==
    IF s = <<>> THEN <<>>
    ELSE InsertByDuration(SortByDurationDesc(Tail(s), d), Head(s), d)

\* mutant: the duration is tested before the first asset is taken
RECURSIVE FallbackLoopTestFirst(_, _, _, _, _)
FallbackLoopTestFirst(cands, combo, d, target, max_videos) ==
    IF cands = <<>> \/ SumDur(combo, d) >= target THEN combo
    ELSE IF Len(combo) < max_videos
         THEN FallbackLoopTestFirst(Tail(cands), combo \o <<Head(cands)>>, d, target,
                                    max_videos)
         ELSE FallbackLoopTestFirst(Tail(cands), combo, d, target, max_videos)

\* mutant: the count test lets one asset too many in
RECURSIVE FallbackLoopOffByOne(_, _, _, _, _)
FallbackLoopOffByOne(cands, combo, d, target, max_videos) ==
    IF cands = <<>> THEN combo
    ELSE IF Len(combo) <= max_videos
         THEN LET next == combo \o <<Head(cands)>>
              IN  IF SumDur(next, d) >= target THEN next
                  ELSE FallbackLoopOffByOne(Tail(cands), next, d, target, max_videos)
         ELSE FallbackLoopOffByOne(Tail(cands), combo, d, target, max_videos)

\* lines 179-186: longest first, up to max_videos, stop once the duration is met
RECURSIVE FallbackLoop(_, _, _, _, _)
FallbackLoop(cands, combo, d, target, max_videos) ==
    IF cands = <<>> THEN combo
    ELSE IF Len(combo) < max_videos
         THEN LET next == combo \o <<Head(cands)>>
              IN  IF SumDur(next, d) >= target THEN next
                  ELSE FallbackLoop(Tail(cands), next, d, target, max_videos)
         ELSE FallbackLoop(Tail(cands), combo, d, target, max_videos)

\* get_pexels_videos_for_duration on the shuffled candidate list: what it returns
Selection(cands, d, file, seed, target, max_videos) ==
    IF cands = <<>> THEN [path |-> "empty", ids |-> <<>>]
    ELSE LET fresh == FreshLoop(cands, <<>>, d, file, seed, target, max_videos)
         IN  IF fresh.found THEN [path |-> "fresh", ids |-> fresh.ids]
             ELSE [path |-> "fallback",
                   ids |-> FallbackLoop(SortByDurationDesc(cands, d), <<>>, d, target, max_videos)]

\* the call ends in an exception: the first _is_combination_used of the loop
\* raises, or the loop reaches the _register_used_combination of line 166 and
\* that raises (the fallback touches the file no more)
SelectionRaises(cands, d, file, seed, target, max_videos) ==
    /\ cands # <<>>
    /\ \/ IsUsedRaises(file, <<Head(cands)>>)
       \/ LET fresh == FreshLoop(cands, <<>>, d, file, seed, target, max_videos)
          IN  fresh.found /\ RegisterRaises(file, fresh.ids)

\* mutant: the selection is never registered
SelectorLedgerNever(file, sel, seed) == file

\* lines 161-167 and 192-193: only the fresh path registers its selection
SelectorLedger(file, sel, seed) ==
    IF sel.path = "fresh" THEN RegisterUsedCombination(file, sel.ids, seed, "ok") ELSE file

\* pexels_montage, lines 103-141: a clip whose download, load or effect fails
\* is skipped, the others are appended in order
MontageClips(ids, failed) == SelectSeq(ids, LAMBDA id : id \notin failed)

\* chroma_key_video, lines 121-157: a clip that fails is skipped; the loop
\* stops at the first clip with which the durations probed from the files
\* reach the target.  `fetched` are the ids download_asset was called for.
RECURSIVE ChromaLoop(_, _, _, _, _, _)
ChromaLoop(ids, failed, probe, target, clips, fetched) ==
    IF ids = <<>> THEN [clips |-> clips, fetched |-> fetched]
    ELSE LET id == Head(ids)
         IN  IF id \in failed
             THEN ChromaLoop(Tail(ids), failed, probe, target, clips, fetched \cup {id})
             ELSE IF SumDur(clips \o <<id>>, probe) >= target
                  THEN [clips |-> clips \o <<id>>, fetched |-> fetched \cup {id}]
                  ELSE ChromaLoop(Tail(ids), failed, probe, target, clips \o <<id>>,
                                  fetched \cup {id})

\* mutant: only a failure of the later stages ends the job
JobRaisesLateOnly(urls, clips, late_failure) == late_failure

\* both callers raise RuntimeError when the selector returned no url, when no
\* clip could be prepared, and when concatenation, masking, composition or
\* the encoder fails (a partial output file is removed)
JobRaises(urls, clips, late_failure) == urls = <<>> \/ clips = <<>> \/ late_failure

\* the duration moviepy reads from a downloaded file: what the search said,
\* or a little more (the search reports whole seconds)
Probes(d) == {d, [id \in DOMAIN d |-> d[id] + 1]}

\* ---------------------------------------------------------------- the chroma mask
\* int(s, 16) on one character
HexVal ==
    [c \in {"0", "4", "8", "F", "f"} |->
        CASE c = "0" -> 0 [] c = "4" -> 4 [] c = "8" -> 8 [] c \in {"F", "f"} -> 15]

\* hex_color.lstrip('#')
RECURSIVE LStripHash(_)
LStripHash(hex_color) ==
    IF hex_color # <<>> /\ Head(hex_color) = "#" THEN LStripHash(Tail(hex_color))
    ELSE hex_color

InvalidColour == <<>>

\* hex_to_rgb: the RGB triple, InvalidColour where it raises ValueError
HexToRgb(hex_color) ==
    LET h == LStripHash(hex_color)
    IN  IF Len(h) # 6 THEN InvalidColour
        ELSE [i \in 1 .. 3 |-> 16 * HexVal[h[2 * i - 1]] + HexVal[h[2 * i]]]

Abs(x) == IF x < 0 THEN -x ELSE x

\* mutant: the differences are taken on the frame's unsigned bytes
ChromaMaskUint8(pixel, rgb, threshold) ==
    IF \A c \in 1 .. 3 : (pixel[c] - rgb[c]) % 256 < threshold THEN 0 ELSE 1

\* chroma_mask_func on one pixel: 0 (0.0, remove) where every channel differs
\* from the key colour by less than threshold, else 1 (1.0, keep)
ChromaMask(pixel, rgb, threshold) ==
    IF \A c \in 1 .. 3 : Abs(pixel[c] - rgb[c]) < threshold THEN 0 ELSE 1

\* the spec's key colour, #00FF00
Green == <<"#", "0", "0", "F", "F", "0", "0">>

\* the inputs: chroma_color with and without '#', two that are no #RRGGBB,
\* the frame's pixels, the thresholds
Colours ==
    LET digits == [1 .. 6 -> {"0", "F"}]
    IN  digits \cup { <<"#">> \o h : h \in digits }
               \cup { <<"#", "f", "f", "4", "0", "8", "0">>, <<"#", "0", "F">>, <<>> }
PixelChannels == {5, 10, 50, 200, 215, 250}
Pixels == [1 .. 3 -> PixelChannels]
Thresholds == {0, 40, 41}

\* ---------------------------------------------------------------- the compositors, stage by stage
\* what happens to one selected clip inside the loop's try block: nothing,
\* download_asset raises, VideoFileClip(path) raises, resize or fx raises
\* (the clip is open by then)
ClipFaults == {"none", "fetch_fails", "load_fails", "effect_fails"}

Failed(ids, fault) == { id \in Range(ids) : fault[id] # "none" }

\* the stage after the loop that fails: none, concatenate_videoclips /
\* subclip, fl_image / set_mask, CompositeVideoClip, write_videofile with the
\* partial output removed, write_videofile with os.remove failing as well
MontageLate == {"none", "concatenate", "encode", "remove_fails"}
ChromaLate == MontageLate \cup {"mask", "composite"}

\* mutant: the test for an empty clip list is missing
JobEndNoClipTest(urls, clips, colour_ok, late) ==
    IF urls = <<>> THEN "no_urls"
    ELSE IF late = "concatenate" THEN "concatenate"
    ELSE IF ~colour_ok THEN "colour"
    ELSE late

\* where the job ends: the raise of lines 111-113 / 88-90, of 159-161 /
\* 143-145, of 171-173 / 156-159, of 178-180 (hex_to_rgb), of 200-202,
\* 212-214, 231-238 / 176-184, or "none", the end of the function
JobEnd(urls, clips, colour_ok, late) ==
    IF urls = <<>> THEN "no_urls"
    ELSE IF clips = <<>> THEN "no_clips"
    ELSE IF late = "concatenate" THEN "concatenate"
    ELSE IF ~colour_ok THEN "colour"
    ELSE late

\* the try of the encoder is the only one with a finally clause
ReachedFinally(end) == end \in {"none", "encode", "remove_fails"}

\* the readers VideoFileClip opened: the foreground ("fg", chroma only) and
\* the fetched clips whose file loaded
Opened(fg, fetched, fault) ==
    (IF fg THEN {"fg"} ELSE {}) \cup { id \in fetched : fault[id] \in {"none", "effect_fails"} }

\* lines 239-249 / 185-193: the finally clause closes the foreground and the
\* clips of the timeline
Closed(fg, clips, end) ==
    IF ReachedFinally(end) THEN (IF fg THEN {"fg"} ELSE {}) \cup Range(clips) ELSE {}

\* lines 140-143 / 128-132: `if i == 0` is the index in the list of urls
FadeIn(ids, fault, fading) ==
    IF fading /\ ids # <<>> /\ fault[Head(ids)] = "none" THEN {Head(ids)} ELSE {}

\* what is at output_path when the job ends
OutputFile(end) ==
    CASE end = "none" -> "complete"
      [] end = "remove_fails" -> "partial"
      [] OTHER -> "absent"

\* concatenate_videoclips(clips, padding=-transition): every clip but the
\* first starts `transition` before its predecessor ends
ConcatDuration(clips, probe, padding) ==
    SumDur(clips, probe) - (IF clips = <<>> THEN 0 ELSE (Len(clips) - 1) * padding)

\* the names the jobs give their downloads
JobFilename(prefix, id) == <<prefix, id, ".mp4">>
JobFilenames(ids) == { JobFilename(prefix, id) : prefix \in {"montage_", "chroma_bg_"}, id \in ids }

\* the download_asset calls of the loop: the files afterwards
RECURSIVE FetchAll(_, _, _, _)
FetchAll(files, prefix, fetched, fault) ==
    IF fetched = {} THEN files
    ELSE LET id == CHOOSE x \in fetched : TRUE
             path == SafeFilename(JobFilename(prefix, id))
             res == DownloadAsset(files[path],
                                  IF fault[id] = "fetch_fails" THEN "request_fails" ELSE "ok")
         IN  FetchAll([files EXCEPT ![path] = res.file], prefix, fetched \ {id}, fault)

\* ... and the requests they sent
Requests(files, counts, prefix, fetched) ==
    [filename \in DOMAIN counts |->
        counts[filename]
          + (IF \E id \in fetched : /\ filename = JobFilename(prefix, id)
                                    /\ ~Exists(files[SafeFilename(filename)])
             THEN 1 ELSE 0)]

NoRun == [fault |-> <<>>, end |-> "none", opened |-> {}, closed |-> {},
          fadein |-> {}, out |-> "absent", fading |-> FALSE, fg_duration |-> 0,
          probe |-> <<>>, bg_duration |-> 0]

\* ---------------------------------------------------------------- state
VARIABLES
    ledgerFile,   \* contents of USED_ASSETS_FILE
    hashSeed,     \* this process's string hash, id -> hash value
    dur,          \* id -> duration of the video on the search service
    call,         \* the call that has just returned, its inputs and its result
    ncalls,       \* ledger-writing calls made so far
    registered,   \* the id sets handed to _register_used_combination so far
    jobs,         \* concurrent jobs inside _register_used_combination
    assetFile,    \* download path -> what is on disk there
    transfers     \* filename -> requests download_asset has sent for it

vars == <<ledgerFile, hashSeed, dur, call, ncalls, registered, jobs, assetFile, transfers>>

JobIds == {1, 2}
IdleJob == [pc |-> "idle", ids |-> <<>>, data |-> {}]
NoJobs == [j \in JobIds |-> IdleJob]

NoCall == [op |-> "none", ids |-> <<>>, cands |-> <<>>, target |-> 0, max_videos |-> 0,
           path |-> "none", before |-> AbsentFile, repeat |-> FALSE, result |-> FALSE,
           outcome |-> "ok", timeline |-> <<>>, raised |-> FALSE, fetched |-> {},
           output |-> FALSE, response |-> "ok", video_files |-> <<>>, chosen |-> NoFile,
           filename |-> <<>>, file_before |-> "absent", network |-> FALSE,
           chroma_color |-> <<>>, rgb |-> <<>>, pixel |-> <<>>, threshold |-> 0, mask |-> 0,
           run |-> NoRun, videos |-> <<>>, urls |-> <<>>, durations |-> <<>>]

HashSeeds == [DOMAIN dur -> 0 .. HashRange - 1]

Init ==
    /\ ledgerFile = AbsentFile
    /\ dur \in Catalogues
    /\ hashSeed \in HashSeeds
    /\ assetFile = NoAssetFiles
    /\ transfers = NoTransfers
    /\ call = NoCall
    /\ ncalls = 0
    /\ registered = {}
    /\ jobs = NoJobs

\* one call of get_pexels_videos_for_duration: the search returned `pool`,
\* random.shuffle put it in the order `cands`
SelectorCall(pool, target, max_videos) ==
    /\ call.op = "none"
    /\ ncalls < MaxCalls
    /\ \E cands \in Perms(pool) :
         IF SelectionRaises(cands, dur, ledgerFile, hashSeed, target, max_videos)
         THEN /\ call' = [NoCall EXCEPT !.op = "select", !.cands = cands, !.target = target,
                                        !.max_videos = max_videos, !.path = "raised",
                                        !.before = ledgerFile, !.raised = TRUE]
              /\ UNCHANGED <<ledgerFile, registered>>
         ELSE \E sel \in {Selection(cands, dur, ledgerFile, hashSeed, target, max_videos)} :
             /\ ledgerFile' = SelectorLedger(ledgerFile, sel, hashSeed)
             /\ registered' = IF sel.path = "fresh"
                              THEN registered \cup {Range(sel.ids)} ELSE registered
             /\ call' = [NoCall EXCEPT !.op = "select", !.ids = sel.ids, !.cands = cands,
                                       !.target = target, !.max_videos = max_videos,
                                       !.path = sel.path, !.before = ledgerFile,
                                       !.repeat = Range(sel.ids) \in registered]
    /\ ncalls' = ncalls + 1
    /\ UNCHANGED <<hashSeed, dur, jobs, assetFile, transfers>>

\* pexels_montage: the selection for n_videos clips, the clips that survive
\* download and processing (`failed` do not), then concatenation and encoding
\* (which fail when `late_failure`)
MontageCall(pool, n_videos) ==
    /\ call.op = "none"
    /\ ncalls < MaxCalls
    /\ \E cands \in Perms(pool) :
         IF SelectionRaises(cands, dur, ledgerFile, hashSeed, MontageTarget, n_videos)
         THEN /\ call' = [NoCall EXCEPT !.op = "montage", !.cands = cands,
                                        !.target = MontageTarget, !.max_videos = n_videos,
                                        !.path = "raised", !.before = ledgerFile,
                                        !.raised = TRUE]
              /\ UNCHANGED <<ledgerFile, registered>>
         ELSE \E sel \in {Selection(cands, dur, ledgerFile, hashSeed, MontageTarget, n_videos)} :
             /\ ledgerFile' = SelectorLedger(ledgerFile, sel, hashSeed)
             /\ registered' = IF sel.path = "fresh"
                              THEN registered \cup {Range(sel.ids)} ELSE registered
             /\ \E failed \in SUBSET Range(sel.ids), late_failure \in BOOLEAN :
                   LET clips == MontageClips(sel.ids, failed)
                       raises == JobRaises(sel.ids, clips, late_failure)
                   IN  call' = [NoCall EXCEPT !.op = "montage", !.ids = sel.ids, !.cands = cands,
                                          !.target = MontageTarget, !.max_videos = n_videos,
                                          !.path = sel.path, !.before = ledgerFile,
                                          !.repeat = Range(sel.ids) \in registered,
                                          !.timeline = clips,
                                          !.raised = raises,
                                          !.fetched = Range(sel.ids),
                                          !.output = ~raises]
    /\ ncalls' = ncalls + 1
    /\ UNCHANGED <<hashSeed, dur, jobs, assetFile, transfers>>

\* chroma_key_video on a foreground of duration fg_duration: load the
\* foreground (`fg_loads`), select the background for its duration plus the
\* fade padding, fetch and prepare the clips, then concatenate, mask,
\* composite and encode
ChromaCall(pool, fg_duration, fade) ==
    /\ call.op = "none"
    /\ ncalls < MaxCalls
    /\ \E cands \in Perms(pool), fg_loads \in BOOLEAN :
         LET target == fg_duration + (IF fade THEN Transition * 2 ELSE 0)
         IN  IF ~fg_loads \/ SelectionRaises(cands, dur, ledgerFile, hashSeed, target,
                                              ChromaMaxVideos)
             THEN /\ call' = [NoCall EXCEPT !.op = "chroma", !.cands = cands,
                                            !.target = target,
                                            !.max_videos = ChromaMaxVideos,
                                            !.path = "raised", !.before = ledgerFile,
                                            !.raised = TRUE]
                  /\ UNCHANGED <<ledgerFile, registered>>
             ELSE \E sel \in {Selection(cands, dur, ledgerFile, hashSeed, target,
                                        ChromaMaxVideos)} :
                 /\ ledgerFile' = SelectorLedger(ledgerFile, sel, hashSeed)
                 /\ registered' = IF sel.path = "fresh"
                                  THEN registered \cup {Range(sel.ids)} ELSE registered
                 /\ \E failed \in SUBSET Range(sel.ids), probe \in Probes(dur),
                       late_failure \in BOOLEAN :
                       LET loop == ChromaLoop(sel.ids, failed, probe, target, <<>>, {})
                           raises == JobRaises(sel.ids, loop.clips, late_failure)
                       IN  call' = [NoCall EXCEPT !.op = "chroma", !.ids = sel.ids,
                                              !.cands = cands, !.target = target,
                                              !.max_videos = ChromaMaxVideos,
                                              !.path = sel.path, !.before = ledgerFile,
                                              !.repeat = Range(sel.ids) \in registered,
                                              !.timeline = loop.clips,
                                              !.raised = raises,
                                              !.fetched = loop.fetched,
                                              !.output = ~raises]
    /\ ncalls' = ncalls + 1
    /\ UNCHANGED <<hashSeed, dur, jobs, assetFile, transfers>>

\* the caller has taken the result; the next call can start
Return ==
    /\ call.op # "none"
    /\ call' = NoCall
    /\ UNCHANGED <<ledgerFile, hashSeed, dur, ncalls, registered, jobs, assetFile, transfers>>

\* the worker process is restarted between calls: string hashing is re-seeded,
\* the file stays
Restart ==
    /\ call.op = "none"
    /\ ledgerFile # AbsentFile
    /\ hashSeed' \in HashSeeds
    /\ hashSeed' # hashSeed
    /\ UNCHANGED <<ledgerFile, dur, call, ncalls, registered, jobs, assetFile, transfers>>

Next ==
    \/ \E pool \in SUBSET Ids, target \in Targets, max_videos \in 1 .. MaxVideos :
          SelectorCall(pool, target, max_videos)
    \/ Return
    \/ Restart

Spec == Init /\ [][Next]_vars

\* the selector called directly and through pexels_montage
NextMontage ==
    \/ \E pool \in SUBSET Ids, target \in Targets, max_videos \in 1 .. MaxVideos :
          SelectorCall(pool, target, max_videos)
    \/ \E pool \in SUBSET Ids, n_videos \in 1 .. MaxVideos : MontageCall(pool, n_videos)
    \/ Return
    \/ Restart

SpecMontage == Init /\ [][NextMontage]_vars

\* the two jobs that consume the selector
NextJobs ==
    \/ \E pool \in SUBSET Ids, n_videos \in 1 .. MaxVideos : MontageCall(pool, n_videos)
    \/ \E pool \in SUBSET Ids, fg_duration \in FgDurations, fade \in BOOLEAN :
          ChromaCall(pool, fg_duration, fade)
    \/ Return

SpecJobs == Init /\ [][NextJobs]_vars

\* ---------------------------------------------------------------- the search fails
\* get_pexels_videos_for_duration when the search delivers no list of videos
SearchFailedCall(response, target, max_videos) ==
    /\ call.op = "none"
    /\ ncalls < MaxCalls
    /\ call' = [NoCall EXCEPT !.op = "select", !.target = target, !.max_videos = max_videos,
                              !.path = IF SearchRaises(response) THEN "raised" ELSE "empty",
                              !.before = ledgerFile, !.response = response,
                              !.raised = SearchRaises(response)]
    /\ ncalls' = ncalls + 1
    /\ UNCHANGED <<ledgerFile, hashSeed, dur, registered, jobs, assetFile, transfers>>

NextSearch ==
    \/ \E pool \in SUBSET Ids, target \in Targets, max_videos \in 1 .. MaxVideos :
          SelectorCall(pool, target, max_videos)
    \/ \E response \in FailedResponses, target \in Targets, max_videos \in 1 .. MaxVideos :
          SearchFailedCall(response, target, max_videos)
    \/ Return

SpecSearch == Init /\ [][NextSearch]_vars

\* ---------------------------------------------------------------- no duration asked for
\* the ledger as earlier jobs left it: any of the single-asset combinations
ZeroLedgers ==
    {AbsentFile} \cup { MapFile({ <<id>> : id \in S }) : S \in (SUBSET Ids) \ {{}} }

InitZero ==
    /\ ledgerFile \in ZeroLedgers
    /\ dur \in Catalogues
    /\ hashSeed \in HashSeeds
    /\ assetFile = NoAssetFiles
    /\ transfers = NoTransfers
    /\ call = NoCall
    /\ ncalls = 0
    /\ registered = { Range(k) : k \in LoadUsedAssets(ledgerFile) }
    /\ jobs = NoJobs

NextZero ==
    \/ \E pool \in SUBSET Ids, target \in ZeroTargets, max_videos \in 1 .. MaxVideos :
          SelectorCall(pool, target, max_videos)
    \/ Return

SpecZero == InitZero /\ [][NextZero]_vars

\* ---------------------------------------------------------------- the spec's scenario
\* candidates a(5 s), b(4 s), c(6 s), d(3 s), target 12, at most 3 assets
InitScenario ==
    /\ ledgerFile = AbsentFile
    /\ dur = Scenario.dur
    /\ hashSeed \in HashSeeds
    /\ assetFile = NoAssetFiles
    /\ transfers = NoTransfers
    /\ call = NoCall
    /\ ncalls = 0
    /\ registered = {}
    /\ jobs = NoJobs

NextScenario ==
    \/ SelectorCall(ScenarioIds, Scenario.target, Scenario.max_videos)
    \/ Return
    \/ Restart

SpecScenario == InitScenario /\ [][NextScenario]_vars

\* ---------------------------------------------------------------- the ledger functions
\* the ledger functions see ids only, never durations
InitLedger ==
    /\ ledgerFile = AbsentFile
    /\ dur = Catalogue1
    /\ hashSeed \in HashSeeds
    /\ assetFile = NoAssetFiles
    /\ transfers = NoTransfers
    /\ call = NoCall
    /\ ncalls = 0
    /\ registered = {}
    /\ jobs = NoJobs

\* _register_used_combination(ids); the write to the file ends with `outcome`
RegisterCall(ids, outcome) ==
    /\ call.op = "none"
    /\ ncalls < MaxCalls
    /\ ledgerFile' = IF RegisterRaises(ledgerFile, ids) THEN ledgerFile
                     ELSE RegisterUsedCombination(ledgerFile, ids, hashSeed, outcome)
    /\ registered' = IF ids # <<>> /\ ~RegisterRaises(ledgerFile, ids)
                     THEN registered \cup {Range(ids)} ELSE registered
    /\ call' = [NoCall EXCEPT !.op = "register", !.ids = ids, !.before = ledgerFile,
                              !.outcome = outcome,
                              !.raised = RegisterRaises(ledgerFile, ids)]
    /\ ncalls' = ncalls + 1
    /\ UNCHANGED <<hashSeed, dur, jobs, assetFile, transfers>>

\* _is_combination_used(ids)
IsUsedCall(ids) ==
    /\ call.op = "none"
    /\ call' = [NoCall EXCEPT !.op = "is_used", !.ids = ids, !.before = ledgerFile,
                              !.result = IsCombinationUsed(ledgerFile, ids, hashSeed),
                              !.repeat = Range(ids) \in registered,
                              !.raised = IsUsedRaises(ledgerFile, ids)]
    /\ UNCHANGED <<ledgerFile, hashSeed, dur, ncalls, registered, jobs, assetFile, transfers>>

NextLedger ==
    \/ \E ids \in Lists(Ids, MaxLen) : RegisterCall(ids, "ok")
    \/ \E ids \in Lists(Ids, MaxLen) : IsUsedCall(ids)
    \/ Return
    \/ Restart

SpecLedger == InitLedger /\ [][NextLedger]_vars

\* the same calls on a disk that can refuse the open or fail during the write
NextFault ==
    \/ \E ids \in Lists(Ids, MaxLen), outcome \in SaveOutcomes : RegisterCall(ids, outcome)
    \/ \E ids \in Lists(Ids, MaxLen) : IsUsedCall(ids)
    \/ Return
    \/ Restart

SpecFault == InitLedger /\ [][NextFault]_vars

\* ---------------------------------------------------------------- one search result
\* lines 78-133 on one entry of data["videos"]
Videos == [files : Lists(Files, MaxFiles), duration : {0, 5}, person : BOOLEAN]

CandidateCall ==
    /\ call.op = "none"
    /\ \E video \in Videos :
          call' = [NoCall EXCEPT !.op = "candidate", !.video_files = video.files,
                                 !.chosen = ChosenFile(video.files),
                                 !.result = IsCandidate(video)]
    /\ UNCHANGED <<ledgerFile, hashSeed, dur, ncalls, registered, jobs, assetFile, transfers>>

NextCandidate ==
    \/ CandidateCall
    \/ Return

SpecCandidate == InitLedger /\ [][NextCandidate]_vars

\* ---------------------------------------------------------------- downloads
\* download_asset(url, filename); the download ends as `outcome` says
DownloadCall(filename, outcome) ==
    /\ call.op = "none"
    /\ transfers[filename] < MaxFetches
    /\ LET path == SafeFilename(filename)
           res == DownloadAsset(assetFile[path], outcome)
       IN  /\ assetFile' = [assetFile EXCEPT ![path] = res.file]
           /\ transfers' = [transfers EXCEPT ![filename] = @ + (IF res.network THEN 1 ELSE 0)]
           /\ call' = [NoCall EXCEPT !.op = "download", !.filename = filename,
                                     !.file_before = assetFile[path],
                                     !.network = res.network, !.raised = res.raised,
                                     !.outcome = outcome,
                                     !.repeat = transfers[filename] > 0]
    /\ UNCHANGED <<ledgerFile, hashSeed, dur, ncalls, registered, jobs>>

NextDownload ==
    \/ \E filename \in Filenames, outcome \in DownloadOutcomes : DownloadCall(filename, outcome)
    \/ Return

SpecDownload == InitLedger /\ [][NextDownload]_vars

\* ---------------------------------------------------------------- the mask of a pixel
\* chroma_key_video, lines 175-192, on one pixel of a foreground frame
MaskCall ==
    /\ call.op = "none"
    /\ \E chroma_color \in Colours, pixel \in Pixels, threshold \in Thresholds :
          LET rgb == HexToRgb(chroma_color)
          IN  call' = IF rgb = InvalidColour
                      THEN [NoCall EXCEPT !.op = "mask", !.chroma_color = chroma_color,
                                          !.raised = TRUE]
                      ELSE [NoCall EXCEPT !.op = "mask", !.chroma_color = chroma_color,
                                          !.rgb = rgb, !.pixel = pixel,
                                          !.threshold = threshold,
                                          !.mask = ChromaMask(pixel, rgb, threshold)]
    /\ UNCHANGED <<ledgerFile, hashSeed, dur, ncalls, registered, jobs, assetFile, transfers>>

InitMask ==
    /\ ledgerFile = AbsentFile
    /\ dur = Catalogue1
    /\ hashSeed = [id \in DOMAIN dur |-> 0]
    /\ assetFile = NoAssetFiles
    /\ transfers = NoTransfers
    /\ call = NoCall
    /\ ncalls = 0
    /\ registered = {}
    /\ jobs = NoJobs

NextMask ==
    \/ MaskCall
    \/ Return

SpecMask == InitMask /\ [][NextMask]_vars

\* ---------------------------------------------------------------- a damaged ledger file
\* the file exists and does not hold what _save_used_assets writes
InitCorrupt ==
    /\ ledgerFile \in CorruptFiles
    /\ dur \in Catalogues
    /\ hashSeed \in HashSeeds
    /\ assetFile = NoAssetFiles
    /\ transfers = NoTransfers
    /\ call = NoCall
    /\ ncalls = 0
    /\ registered = {}
    /\ jobs = NoJobs

NextCorrupt ==
    \/ \E pool \in SUBSET Ids, target \in Targets, max_videos \in 1 .. MaxVideos :
          SelectorCall(pool, target, max_videos)
    \/ \E ids \in Lists(Ids, MaxLen) : RegisterCall(ids, "ok")
    \/ \E ids \in Lists(Ids, MaxLen) : IsUsedCall(ids)
    \/ Return

SpecCorrupt == InitCorrupt /\ [][NextCorrupt]_vars

\* ---------------------------------------------------------------- concurrent jobs
\* Two jobs run _register_used_combination at once.  Each reads the file
\* (line 37), adds its key (line 40), opens the file for writing, which
\* truncates it (line 28), and dumps its copy (line 29).
PriorKeys == { {}, {<<"c">>} }

InitConcurrent ==
    /\ \E keys \in PriorKeys :
          /\ ledgerFile = (IF keys = {} THEN AbsentFile ELSE MapFile(keys))
          /\ registered = { Range(k) : k \in keys }
    /\ dur = Catalogue1
    /\ hashSeed \in HashSeeds
    /\ assetFile = NoAssetFiles
    /\ transfers = NoTransfers
    /\ call = NoCall
    /\ ncalls = 0
    /\ jobs = NoJobs

RegBegin(j, ids) ==
    /\ jobs[j].pc = "idle"
    /\ jobs' = [jobs EXCEPT ![j] = [pc |-> IF ids = <<>> THEN "done" ELSE "load",
                                    ids |-> ids, data |-> {}]]
    /\ registered' = IF ids # <<>> THEN registered \cup {Range(ids)} ELSE registered
    /\ UNCHANGED <<ledgerFile, hashSeed, dur, call, ncalls, assetFile, transfers>>

RegLoad(j) ==
    /\ jobs[j].pc = "load"
    /\ jobs' = [jobs EXCEPT ![j].pc = "open",
                            ![j].data = LoadUsedAssets(ledgerFile)
                                          \cup {Key(jobs[j].ids, hashSeed)}]
    /\ UNCHANGED <<ledgerFile, hashSeed, dur, call, ncalls, registered, assetFile, transfers>>

\* open(USED_ASSETS_FILE, "w"): the file is empty until the dump is flushed,
\* and an empty file does not decode
RegOpen(j) ==
    /\ jobs[j].pc = "open"
    /\ ledgerFile' = GarbageFile
    /\ jobs' = [jobs EXCEPT ![j].pc = "write"]
    /\ UNCHANGED <<hashSeed, dur, call, ncalls, registered, assetFile, transfers>>

\* json.dump and close.  When the other job has written since this job's
\* open, this job's bytes overlay the other's from offset 0: the file is this
\* job's mapping, or, if the other's text was longer, its tail makes it undecodable
RegWrite(j) ==
    /\ jobs[j].pc = "write"
    /\ \/ ledgerFile' = MapFile(jobs[j].data)
       \/ /\ ledgerFile.kind = "map"
          /\ ledgerFile' = GarbageFile
    /\ jobs' = [jobs EXCEPT ![j].pc = "done"]
    /\ UNCHANGED <<hashSeed, dur, call, ncalls, registered, assetFile, transfers>>

NextConcurrent ==
    \E j \in JobIds :
        \/ \E ids \in Lists(Ids, MaxLen) : RegBegin(j, ids)
        \/ RegLoad(j)
        \/ RegOpen(j)
        \/ RegWrite(j)

SpecConcurrent == InitConcurrent /\ [][NextConcurrent]_vars

\* ---------------------------------------------------------------- concurrent selector calls
\* Two jobs run get_pexels_videos_for_duration at once over the same search
\* result.  Every iteration of the loop of lines 151-167 reads the file through
\* _is_combination_used; the registration of line 166 is the load / open /
\* write sequence above.  Nothing is held between the steps.
IdleSelJob == [pc |-> "idle", ids |-> <<>>, data |-> {}, cands |-> <<>>, shuffled |-> <<>>,
               target |-> 0, max_videos |-> 0, path |-> "none"]

InitSelConcurrent ==
    /\ \E keys \in PriorKeys :
          /\ ledgerFile = (IF keys = {} THEN AbsentFile ELSE MapFile(keys))
          /\ registered = { Range(k) : k \in keys }
    /\ dur = Catalogue1
    /\ hashSeed \in HashSeeds
    /\ assetFile = NoAssetFiles
    /\ transfers = NoTransfers
    /\ call = NoCall
    /\ ncalls = 0
    /\ jobs = [j \in JobIds |-> IdleSelJob]

\* lines 139-149: the shuffled candidates, the empty combination
SelBegin(j, cands, target, max_videos) ==
    /\ jobs[j].pc = "idle"
    /\ jobs' = [jobs EXCEPT ![j] = [IdleSelJob EXCEPT !.pc = "check", !.cands = cands,
                                                      !.shuffled = cands, !.target = target,
                                                      !.max_videos = max_videos]]
    /\ UNCHANGED <<ledgerFile, hashSeed, dur, call, ncalls, registered, assetFile, transfers>>

\* lines 151-165: one iteration of the fresh-combination loop
SelCheck(j) ==
    /\ jobs[j].pc = "check"
    /\ jobs[j].cands # <<>>
    /\ LET job == jobs[j]
           id == Head(job.cands)
           next == job.ids \o <<id>>
       IN  IF ~IsCombinationUsed(ledgerFile, Sorted(next), hashSeed)
           THEN IF SumDur(next, dur) >= job.target /\ Len(next) <= job.max_videos
                THEN /\ jobs' = [jobs EXCEPT ![j].pc = "load", ![j].ids = next,
                                             ![j].cands = Tail(job.cands),
                                             ![j].path = "fresh"]
                     /\ registered' = registered \cup {Range(next)}
                ELSE /\ jobs' = [jobs EXCEPT ![j].ids = next, ![j].cands = Tail(job.cands)]
                     /\ UNCHANGED registered
           ELSE /\ jobs' = [jobs EXCEPT ![j].cands = Tail(job.cands)]
                /\ UNCHANGED registered
    /\ UNCHANGED <<ledgerFile, hashSeed, dur, call, ncalls, assetFile, transfers>>

\* lines 171-196: the loop ended without a return
SelFallback(j) ==
    /\ jobs[j].pc = "check"
    /\ jobs[j].cands = <<>>
    /\ jobs' = [jobs EXCEPT ![j].pc = "done", ![j].path = "fallback",
                            ![j].ids = FallbackLoop(SortByDurationDesc(jobs[j].shuffled, dur),
                                                    <<>>, dur, jobs[j].target,
                                                    jobs[j].max_videos)]
    /\ UNCHANGED <<ledgerFile, hashSeed, dur, call, ncalls, registered, assetFile, transfers>>

NextSelConcurrent ==
    \E j \in JobIds :
        \/ \E cands \in Perms(Ids), target \in Targets, max_videos \in 1 .. MaxVideos :
              SelBegin(j, cands, target, max_videos)
        \/ SelCheck(j)
        \/ SelFallback(j)
        \/ RegLoad(j)
        \/ RegOpen(j)
        \/ RegWrite(j)

SpecSelConcurrent == InitSelConcurrent /\ [][NextSelConcurrent]_vars

\* ---------------------------------------------------------------- the jobs, stage by stage
\* the download directory holds what the jobs fetched
InitStages ==
    /\ ledgerFile = AbsentFile
    /\ dur = Catalogue1
    /\ hashSeed = [id \in DOMAIN dur |-> 0]
    /\ assetFile = [path \in { SafeFilename(f) : f \in JobFilenames(Ids) } |-> "absent"]
    /\ transfers = [filename \in JobFilenames(Ids) |-> 0]
    /\ call = NoCall
    /\ ncalls = 0
    /\ registered = {}
    /\ jobs = NoJobs

\* pexels_montage from the selection to the finally clause: every selected
\* clip meets `fault`, the stages after the loop fail as `late` says
MontageJob(pool, n_videos, transition) ==
    /\ call.op = "none"
    /\ ncalls < MaxJobs
    /\ \E cands \in Perms(pool) :
         /\ ~SelectionRaises(cands, dur, ledgerFile, hashSeed, MontageTarget, n_videos)
         /\ \E sel \in {Selection(cands, dur, ledgerFile, hashSeed, MontageTarget, n_videos)} :
             /\ ledgerFile' = SelectorLedger(ledgerFile, sel, hashSeed)
             /\ registered' = IF sel.path = "fresh"
                              THEN registered \cup {Range(sel.ids)} ELSE registered
             /\ \E fault \in [Range(sel.ids) -> ClipFaults], late \in MontageLate :
                   /\ \A id \in Range(sel.ids) :
                         fault[id] = "fetch_fails" =>
                             ~Exists(assetFile[SafeFilename(JobFilename("montage_", id))])
                   /\ LET clips == MontageClips(sel.ids, Failed(sel.ids, fault))
                          end == JobEnd(sel.ids, clips, TRUE, late)
                          fetched == Range(sel.ids)
                      IN  /\ call' = [NoCall EXCEPT
                                        !.op = "montage", !.ids = sel.ids, !.cands = cands,
                                        !.target = MontageTarget, !.max_videos = n_videos,
                                        !.path = sel.path, !.before = ledgerFile,
                                        !.repeat = Range(sel.ids) \in registered,
                                        !.timeline = clips,
                                        !.raised = end # "none",
                                        !.fetched = fetched,
                                        !.output = end = "none",
                                        !.run = [NoRun EXCEPT
                                                   !.fault = fault, !.end = end,
                                                   !.opened = Opened(FALSE, fetched, fault),
                                                   !.closed = Closed(FALSE, clips, end),
                                                   !.fading = transition > 0,
                                                   !.fadein = FadeIn(sel.ids, fault,
                                                                     transition > 0),
                                                   !.out = OutputFile(end)]]
                          /\ assetFile' = FetchAll(assetFile, "montage_", fetched, fault)
                          /\ transfers' = Requests(assetFile, transfers, "montage_", fetched)
    /\ ncalls' = ncalls + 1
    /\ UNCHANGED <<hashSeed, dur, jobs>>

\* chroma_key_video from the load of the foreground to the finally clause
ChromaJob(pool, fg_duration, fade, chroma_color) ==
    /\ call.op = "none"
    /\ ncalls < MaxJobs
    /\ \E cands \in Perms(pool), fg_loads \in BOOLEAN :
         LET target == fg_duration + (IF fade THEN Transition * 2 ELSE 0)
             fading == fade /\ Transition > 0
         IN  IF ~fg_loads
             THEN /\ call' = [NoCall EXCEPT !.op = "chroma", !.cands = cands,
                                            !.target = target,
                                            !.max_videos = ChromaMaxVideos,
                                            !.path = "raised", !.before = ledgerFile,
                                            !.raised = TRUE, !.chroma_color = chroma_color,
                                            !.run = [NoRun EXCEPT !.end = "foreground",
                                                                  !.fading = fading,
                                                                  !.fg_duration = fg_duration]]
                  /\ UNCHANGED <<ledgerFile, registered, assetFile, transfers>>
             ELSE
               /\ ~SelectionRaises(cands, dur, ledgerFile, hashSeed, target, ChromaMaxVideos)
               /\ \E sel \in {Selection(cands, dur, ledgerFile, hashSeed, target,
                                        ChromaMaxVideos)} :
                 /\ ledgerFile' = SelectorLedger(ledgerFile, sel, hashSeed)
                 /\ registered' = IF sel.path = "fresh"
                                  THEN registered \cup {Range(sel.ids)} ELSE registered
                 /\ \E fault \in [Range(sel.ids) -> ClipFaults], probe \in Probes(dur),
                       late \in ChromaLate :
                       /\ \A id \in Range(sel.ids) :
                             fault[id] = "fetch_fails" =>
                                 ~Exists(assetFile[SafeFilename(JobFilename("chroma_bg_", id))])
                       /\ LET loop == ChromaLoop(sel.ids, Failed(sel.ids, fault), probe,
                                                 target, <<>>, {})
                              end == JobEnd(sel.ids, loop.clips,
                                            HexToRgb(chroma_color) # InvalidColour, late)
                              padding == IF fading /\ Len(loop.clips) > 1
                                         THEN Transition ELSE 0
                          IN  /\ call' =
                                   [NoCall EXCEPT
                                      !.op = "chroma", !.ids = sel.ids, !.cands = cands,
                                      !.target = target, !.max_videos = ChromaMaxVideos,
                                      !.path = sel.path, !.before = ledgerFile,
                                      !.repeat = Range(sel.ids) \in registered,
                                      !.timeline = loop.clips,
                                      !.raised = end # "none",
                                      !.fetched = loop.fetched,
                                      !.output = end = "none",
                                      !.chroma_color = chroma_color,
                                      !.run = [NoRun EXCEPT
                                                 !.fault = fault, !.end = end,
                                                 !.opened = Opened(TRUE, loop.fetched, fault),
                                                 !.closed = Closed(TRUE, loop.clips, end),
                                                 !.fading = fading,
                                                 !.fadein = FadeIn(sel.ids, fault, fading),
                                                 !.out = OutputFile(end),
                                                 !.fg_duration = fg_duration,
                                                 !.probe = probe,
                                                 !.bg_duration =
                                                     ConcatDuration(loop.clips, probe,
                                                                    padding)]]
                              /\ assetFile' = FetchAll(assetFile, "chroma_bg_", loop.fetched,
                                                       fault)
                              /\ transfers' = Requests(assetFile, transfers, "chroma_bg_",
                                                       loop.fetched)
    /\ ncalls' = ncalls + 1
    /\ UNCHANGED <<hashSeed, dur, jobs>>

\* transition of pexels_montage: none, or a crossfade
MontageTransitions == {0, 1}

\* chroma_color: the default, and one that is no #RRGGBB
JobColours == {Green, <<"#", "0", "F">>}

NextStages ==
    \/ \E pool \in SUBSET Ids, n_videos \in 1 .. MaxVideos, transition \in MontageTransitions :
          MontageJob(pool, n_videos, transition)
    \/ \E pool \in SUBSET Ids, fg_duration \in FgDurations, fade \in BOOLEAN,
          chroma_color \in JobColours :
          ChromaJob(pool, fg_duration, fade, chroma_color)
    \/ Return

SpecStages == InitStages /\ [][NextStages]_vars


\* ---------------------------------------------------------------- the crossfade padding
\* four candidates of 5 s, the shortest the chroma search asks for
\* (min_duration = max(5, transition * 2)), and two foregrounds
CrossfadeDur == [a |-> 5, b |-> 5, c |-> 5, d |-> 5]
CrossfadeFg == {13, 18}

InitCrossfade ==
    /\ ledgerFile = AbsentFile
    /\ dur = CrossfadeDur
    /\ hashSeed = [id \in DOMAIN dur |-> 0]
    /\ assetFile = [path \in { SafeFilename(f) : f \in JobFilenames(ScenarioIds) } |-> "absent"]
    /\ transfers = [filename \in JobFilenames(ScenarioIds) |-> 0]
    /\ call = NoCall
    /\ ncalls = 0
    /\ registered = {}
    /\ jobs = NoJobs

NextCrossfade ==
    \/ \E pool \in SUBSET ScenarioIds, fg_duration \in CrossfadeFg, fade \in BOOLEAN :
          ChromaJob(pool, fg_duration, fade, Green)
    \/ Return

SpecCrossfade == InitCrossfade /\ [][NextCrossfade]_vars

\* ---------------------------------------------------------------- concurrent downloads
\* Two jobs run download_asset at once.  Each tests os.path.exists (line
\* 210), sends the request (216-217), opens the file for writing, which
\* creates or truncates it (218), writes the chunks (219-220) and returns, or
\* removes the file after a RequestException (223-231).  `linked`: the file
\* the job has open is still the one at the path (no one has removed it).
IdleDl == [pc |-> "idle", filename |-> <<>>, linked |-> FALSE, got |-> "absent"]

InitDlConcurrent ==
    /\ ledgerFile = AbsentFile
    /\ dur = Catalogue1
    /\ hashSeed = [id \in DOMAIN dur |-> 0]
    /\ assetFile = NoAssetFiles
    /\ transfers = NoTransfers
    /\ call = NoCall
    /\ ncalls = 0
    /\ registered = {}
    /\ jobs = [j \in JobIds |-> IdleDl]

DlPath(j) == SafeFilename(jobs[j].filename)

\* lines 207-212
DlBegin(j, filename) ==
    /\ jobs[j].pc = "idle"
    /\ LET state == assetFile[SafeFilename(filename)]
       IN  jobs' = [jobs EXCEPT ![j] = IF Exists(state)
                                       THEN [IdleDl EXCEPT !.pc = "returned",
                                                           !.filename = filename,
                                                           !.got = state]
                                       ELSE [IdleDl EXCEPT !.pc = "request",
                                                           !.filename = filename]]
    /\ UNCHANGED <<ledgerFile, hashSeed, dur, call, ncalls, registered, assetFile, transfers>>

\* lines 216-217: requests.get and raise_for_status
DlRequest(j) ==
    /\ jobs[j].pc = "request"
    /\ \E ok \in BOOLEAN : jobs' = [jobs EXCEPT ![j].pc = IF ok THEN "open" ELSE "cleanup"]
    /\ transfers' = [transfers EXCEPT ![jobs[j].filename] = @ + 1]
    /\ UNCHANGED <<ledgerFile, hashSeed, dur, call, ncalls, registered, assetFile>>

\* line 218: open(path, "wb")
DlOpen(j) ==
    /\ jobs[j].pc = "open"
    /\ assetFile' = [assetFile EXCEPT ![DlPath(j)] = "partial"]
    /\ jobs' = [jobs EXCEPT ![j].pc = "stream", ![j].linked = TRUE]
    /\ UNCHANGED <<ledgerFile, hashSeed, dur, call, ncalls, registered, transfers>>

\* lines 219-222: the chunks are written and the path is returned.  While the
\* other job is writing the same file its chunks may still be missing.
DlStream(j) ==
    /\ jobs[j].pc = "stream"
    /\ \E state \in {"partial", "complete"} :
          /\ state = "partial" =>
                \E k \in JobIds \ {j} :
                    jobs[k].pc = "stream" /\ jobs[k].linked /\ DlPath(k) = DlPath(j)
          /\ LET after == IF jobs[j].linked THEN state ELSE assetFile[DlPath(j)]
             IN  /\ assetFile' = [assetFile EXCEPT ![DlPath(j)] = after]
                 /\ jobs' = [jobs EXCEPT ![j].pc = "returned", ![j].got = after]
    /\ UNCHANGED <<ledgerFile, hashSeed, dur, call, ncalls, registered, transfers>>

\* iter_content raises a RequestException (on to line 223), or f.write raises
\* OSError, which nothing catches
DlStreamFails(j) ==
    /\ jobs[j].pc = "stream"
    /\ \E caught \in BOOLEAN :
          jobs' = [jobs EXCEPT ![j].pc = IF caught THEN "cleanup" ELSE "raised"]
    /\ UNCHANGED <<ledgerFile, hashSeed, dur, call, ncalls, registered, assetFile, transfers>>

\* lines 223-231: whatever is at the path is removed, and the exception re-raised
DlCleanup(j) ==
    /\ jobs[j].pc = "cleanup"
    /\ IF Exists(assetFile[DlPath(j)])
       THEN /\ assetFile' = [assetFile EXCEPT ![DlPath(j)] = "removed"]
            /\ jobs' = [k \in JobIds |->
                          IF k = j THEN [jobs[k] EXCEPT !.pc = "raised", !.linked = FALSE]
                          ELSE IF jobs[k].filename # <<>> /\ DlPath(k) = DlPath(j)
                               THEN [jobs[k] EXCEPT !.linked = FALSE]
                               ELSE jobs[k]]
       ELSE /\ jobs' = [jobs EXCEPT ![j].pc = "raised"]
            /\ UNCHANGED assetFile
    /\ UNCHANGED <<ledgerFile, hashSeed, dur, call, ncalls, registered, transfers>>

NextDlConcurrent ==
    \E j \in JobIds :
        \/ \E filename \in Filenames : DlBegin(j, filename)
        \/ DlRequest(j)
        \/ DlOpen(j)
        \/ DlStream(j)
        \/ DlStreamFails(j)
        \/ DlCleanup(j)

SpecDlConcurrent == InitDlConcurrent /\ [][NextDlConcurrent]_vars

\* ---------------------------------------------------------------- the selector on a failing disk
\* get_pexels_videos_for_duration when the write of _save_used_assets, reached
\* through line 166, ends as `outcome` says
SelectorDiskCall(pool, target, max_videos, outcome) ==
    /\ call.op = "none"
    /\ ncalls < MaxCalls
    /\ \E cands \in Perms(pool) :
         /\ ~SelectionRaises(cands, dur, ledgerFile, hashSeed, target, max_videos)
         /\ \E sel \in {Selection(cands, dur, ledgerFile, hashSeed, target, max_videos)} :
             /\ ledgerFile' = IF sel.path = "fresh"
                              THEN RegisterUsedCombination(ledgerFile, sel.ids, hashSeed,
                                                           outcome)
                              ELSE ledgerFile
             /\ registered' = IF sel.path = "fresh"
                              THEN registered \cup {Range(sel.ids)} ELSE registered
             /\ call' = [NoCall EXCEPT !.op = "select", !.ids = sel.ids, !.cands = cands,
                                       !.target = target, !.max_videos = max_videos,
                                       !.path = sel.path, !.before = ledgerFile,
                                       !.outcome = outcome,
                                       !.repeat = Range(sel.ids) \in registered]
    /\ ncalls' = ncalls + 1
    /\ UNCHANGED <<hashSeed, dur, jobs, assetFile, transfers>>

NextSelFault ==
    \/ \E pool \in SUBSET Ids, target \in Targets, max_videos \in 1 .. MaxVideos,
          outcome \in SaveOutcomes :
          SelectorDiskCall(pool, target, max_videos, outcome)
    \/ \E response \in FailedResponses, target \in Targets, max_videos \in 1 .. MaxVideos :
          SearchFailedCall(response, target, max_videos)
    \/ Return

SpecSelFault == Init /\ [][NextSelFault]_vars

\* ---------------------------------------------------------------- the whole selector
\* get_pexels_videos_for_duration from the response of the search to the
\* three lists it returns
InitResponse ==
    /\ ledgerFile = AbsentFile
    /\ dur = Catalogue1
    /\ hashSeed = [id \in DOMAIN dur |-> 0]
    /\ assetFile = NoAssetFiles
    /\ transfers = NoTransfers
    /\ call = NoCall
    /\ ncalls = 0
    /\ registered = {}
    /\ jobs = NoJobs

ResponseCall(videos, target, max_videos) ==
    /\ call.op = "none"
    /\ ncalls < MaxJobs
    /\ \E cands \in Shuffles(Candidates(videos, {})) :
         /\ ~SelectionRaises(cands, dur, ledgerFile, hashSeed, target, max_videos)
         /\ \E sel \in {Selection(cands, dur, ledgerFile, hashSeed, target, max_videos)} :
             /\ ledgerFile' = SelectorLedger(ledgerFile, sel, hashSeed)
             /\ registered' = IF sel.path = "fresh"
                              THEN registered \cup {Range(sel.ids)} ELSE registered
             /\ call' = [NoCall EXCEPT !.op = "select", !.ids = sel.ids, !.cands = cands,
                                       !.target = target, !.max_videos = max_videos,
                                       !.path = sel.path, !.before = ledgerFile,
                                       !.repeat = Range(sel.ids) \in registered,
                                       !.videos = videos,
                                       !.urls = [i \in DOMAIN sel.ids |-> Url(sel.ids[i])],
                                       !.durations = [i \in DOMAIN sel.ids |-> dur[sel.ids[i]]]]
    /\ ncalls' = ncalls + 1
    /\ UNCHANGED <<hashSeed, dur, jobs, assetFile, transfers>>

ResponseCallAny ==
    /\ call.op = "none"
    /\ \E videos \in Lists(Entries, MaxVideos), target \in Targets,
          max_videos \in 1 .. MaxVideos :
          ResponseCall(videos, target, max_videos)

NextResponse ==
    \/ ResponseCallAny
    \/ Return

SpecResponse == InitResponse /\ [][NextResponse]_vars

\* ================================================================ properties
SelectorReturned == call.op \in {"select", "montage"}

\* the non-empty combinations of the candidates of the call
Combos == (SUBSET Range(call.cands)) \ {{}}

RECURSIVE SumSet(_, _)
SumSet(S, d) ==
    IF S = {} THEN 0 ELSE LET x == CHOOSE y \in S : TRUE IN d[x] + SumSet(S \ {x}, d)

\* no key of the file stands for the id set S
NotInLedger(S, file) == \A k \in LoadUsedAssets(file) : Range(k) # S

\* C1 as stated: whenever the pool is non-empty, its total duration reaches the
\* target and some combination of candidates that is not in the ledger reaches
\* the target, the returned durations sum to at least the target.
C1_Original ==
    ( /\ SelectorReturned
      /\ call.cands # <<>>
      /\ SumDur(call.cands, dur) >= call.target
      /\ \E S \in Combos : NotInLedger(S, call.before) /\ SumSet(S, dur) >= call.target )
    => SumDur(call.ids, dur) >= call.target

\* C1 amended: whenever some combination of at most max_videos candidates that
\* is not in the ledger reaches the target, the returned durations sum to at
\* least the target.
C1_DurationMet ==
    ( /\ SelectorReturned
      /\ call.cands # <<>>
      /\ SumDur(call.cands, dur) >= call.target
      /\ \E S \in Combos : /\ Cardinality(S) <= call.max_videos
                            /\ NotInLedger(S, call.before)
                            /\ SumSet(S, dur) >= call.target )
    => SumDur(call.ids, dur) >= call.target

\* C1 witness: a call on a ledger that already holds a key, more candidates
\* than max_videos, which ends in the longest-first fallback and meets the target
C1_Witness ==
    /\ call.op = "select"
    /\ call.path = "fallback"
    /\ call.target > 0
    /\ LoadUsedAssets(call.before) # {}
    /\ Len(call.cands) > call.max_videos
    /\ \E S \in Combos : /\ Cardinality(S) <= call.max_videos
                          /\ NotInLedger(S, call.before)
                          /\ SumSet(S, dur) >= call.target
    /\ SumDur(call.ids, dur) >= call.target

\* C2: every selection the selector returns, on either path, has at most
\* max_videos assets, and the montage's timeline has at most n_videos clips.
C2_AtMostMaxVideos ==
    SelectorReturned =>
        /\ Len(call.ids) <= call.max_videos
        /\ Len(call.timeline) <= call.max_videos

\* C2 witness: a montage over more candidates than n_videos whose timeline
\* holds exactly n_videos clips
C2_Witness ==
    /\ call.op = "montage"
    /\ Len(call.cands) > call.max_videos
    /\ Len(call.timeline) = call.max_videos

\* C3: in the scenario, from an empty ledger and for every shuffle order, the
\* selector returns at most 3 assets whose durations sum to at least 12, and
\* afterwards the ledger holds one key, the key of exactly the returned ids.
C3_Scenario ==
    (call.op = "select" /\ LoadUsedAssets(call.before) = {}) =>
        /\ Len(call.ids) <= Scenario.max_videos
        /\ SumDur(call.ids, dur) >= Scenario.target
        /\ \E k \in LoadUsedAssets(ledgerFile) :
              /\ LoadUsedAssets(ledgerFile) = {k}
              /\ Range(k) = Range(call.ids)
              /\ Len(k) = Len(call.ids)

\* C3 witness: the scenario's call returned a, b and d (12 s in all) from the
\* empty ledger and the ledger now holds a key
C3_Witness ==
    /\ call.op = "select"
    /\ LoadUsedAssets(call.before) = {}
    /\ Range(call.ids) = {"a", "b", "d"}
    /\ SumDur(call.ids, dur) = Scenario.target
    /\ LoadUsedAssets(ledgerFile) # {}

\* C4 as stated: whenever some set of at most max_videos candidates that is
\* not in the ledger reaches the target, the returned id set was not in the
\* ledger when the call started.
C4_AvoidsUsed ==
    ( /\ SelectorReturned
      /\ \E S \in Combos : /\ Cardinality(S) <= call.max_videos
                            /\ NotInLedger(S, call.before)
                            /\ SumSet(S, dur) >= call.target )
    => NotInLedger(Range(call.ids), call.before)

\* C5 as stated: over a sequence of selector calls on one ledger, no id set
\* is returned through the fresh-combination path twice.
C5_NoRepeat ==
    (SelectorReturned /\ call.path = "fresh") => ~call.repeat

\* C6 as stated: the key does not depend on the order of the ids, in one
\* process and across restarts: every key in the file is the key this process
\* computes for every ordering of the ids it stands for.
C6_KeyOrderIndependent ==
    \A k \in LoadUsedAssets(ledgerFile) :
        \A p \in Perms(Range(k)) : Key(p, hashSeed) = k

\* C7 as stated: _is_combination_used answers true exactly for the id sets
\* that were handed to _register_used_combination.
C7_Membership ==
    call.op = "is_used" => (call.result <=> call.repeat)

\* C8: registering the empty list leaves the file as it was, whatever it
\* holds, and the empty list is never reported as used.
C8_EmptyIsNoOp ==
    /\ (call.op = "register" /\ call.ids = <<>>) => ledgerFile = call.before
    /\ (call.op = "is_used" /\ call.ids = <<>>) => ~call.result

\* C8 witness: the empty list was registered on a file that holds a key
C8_Witness ==
    /\ call.op = "register"
    /\ call.ids = <<>>
    /\ LoadUsedAssets(call.before) # {}
    /\ ledgerFile = call.before

\* C9 as stated: a register call, also one whose write fails, keeps every key
\* the file held before it.
C9_Additive ==
    call.op = "register" => LoadUsedAssets(call.before) \subseteq LoadUsedAssets(ledgerFile)

\* C10 as stated: when two jobs have registered two different combinations
\* concurrently, the file holds both new keys and every key it held before.
C10_BothKept ==
    ( /\ \A j \in JobIds : jobs[j].pc = "done" /\ jobs[j].ids # <<>>
      /\ Range(jobs[1].ids) # Range(jobs[2].ids) )
    => /\ \A j \in JobIds : Key(jobs[j].ids, hashSeed) \in LoadUsedAssets(ledgerFile)
       /\ \A S \in registered : ~NotInLedger(S, ledgerFile)

\* C11 as stated: two selector calls that ran concurrently over the same
\* candidates and ledger never both return the same id set through the
\* fresh-combination path.
C11_NoDoubleFresh ==
    (\A j \in JobIds : jobs[j].pc = "done" /\ jobs[j].path = "fresh")
    => Range(jobs[1].ids) # Range(jobs[2].ids)

\* C12 as stated: on a ledger file that exists and is undecodable, unreadable
\* or not a mapping, _is_combination_used, _register_used_combination and the
\* selector do not raise and do what they do on an empty ledger.
C12_CorruptAsEmpty ==
    (call.op \in {"select", "is_used", "register"} /\ call.before \in CorruptFiles) =>
        /\ ~call.raised
        /\ call.op = "is_used" => ~call.result
        /\ call.op = "register" =>
              LoadUsedAssets(ledgerFile) =
                  LoadUsedAssets(RegisterUsedCombination(AbsentFile, call.ids, hashSeed,
                                                         call.outcome))
        /\ call.op = "select" =>
              call.ids = Selection(call.cands, dur, AbsentFile, hashSeed, call.target,
                                   call.max_videos).ids

\* C13 as stated: every key a chroma or montage job leaves in the ledger is
\* the id set of the clips that job assembled into an output it produced.
C13_KeysAssembled ==
    call.op \in {"montage", "chroma"} =>
        \A k \in LoadUsedAssets(ledgerFile) \ LoadUsedAssets(call.before) :
            call.output /\ Range(k) = Range(call.timeline)

\* C14: when no candidate survives filtering the selector returns the empty
\* result, and chroma_key_video and pexels_montage raise, having fetched no
\* asset and written no output; the ledger is as before.
C14_EmptyIsHardFailure ==
    (call.op \in {"montage", "chroma"} /\ call.cands = <<>>) =>
        /\ call.ids = <<>>
        /\ call.raised
        /\ call.fetched = {}
        /\ ~call.output
        /\ ledgerFile = call.before

\* C14 witness: a chroma job on an empty candidate list has raised, after an
\* earlier job had left a key in the ledger
C14_Witness ==
    /\ call.op = "chroma"
    /\ call.cands = <<>>
    /\ call.raised
    /\ ~call.output
    /\ LoadUsedAssets(ledgerFile) # {}

\* C15: for a target duration of zero or below, max_videos >= 1 and at least
\* one candidate, the selector returns at least one asset, for every shuffle
\* order and every ledger, also one that holds every single-asset combination.
C15_AtLeastOne ==
    (call.op = "select" /\ call.target <= 0 /\ call.max_videos >= 1 /\ call.cands # <<>>) =>
        ~call.raised /\ Len(call.ids) >= 1

\* C15 witness: a call for a negative duration on a ledger that holds every
\* candidate as a single-asset combination returned one asset
C15_Witness ==
    /\ call.op = "select"
    /\ call.target < 0
    /\ Len(call.cands) > 1
    /\ \A id \in Range(call.cands) : <<id>> \in LoadUsedAssets(call.before)
    /\ call.path = "fallback"
    /\ Len(call.ids) = 1

\* C16 as stated: when the search fails (transport error, error status, a
\* body that is not the expected JSON) the selector returns the empty result,
\* does not raise and leaves the ledger as it was.
C16_SearchFailureIsEmpty ==
    (call.op = "select" /\ call.response # "ok") =>
        /\ ~call.raised
        /\ call.ids = <<>>
        /\ ledgerFile = call.before

\* the landscape files of the call's video_files, and those at least 1280 wide
LandscapeFiles == { f \in Range(call.video_files) : f.width > f.height /\ f.height # 0 }
HdFiles == { f \in LandscapeFiles : f.width >= 1280 }

\* C17: the file chosen for a candidate is landscape; it is as wide as the
\* widest landscape file of width >= 1280 when there is one, else as wide as
\* the widest landscape file; a video without a landscape file is no candidate.
C17_WidestLandscape ==
    call.op = "candidate" =>
        /\ call.result =>
              /\ call.chosen \in LandscapeFiles
              /\ HdFiles # {} => call.chosen \in HdFiles
              /\ \A f \in LandscapeFiles : f.width <= call.chosen.width
        /\ LandscapeFiles = {} => ~call.result

\* C17 witness: no landscape file reaches 1280, a portrait file is wider than
\* the landscape one, and the landscape file was chosen
C17_Witness ==
    /\ call.op = "candidate"
    /\ call.result
    /\ HdFiles = {}
    /\ \E f \in Range(call.video_files) : f.width > call.chosen.width
    /\ call.chosen \in LandscapeFiles

\* C18 as stated: in a sequence of download_asset calls with one filename in
\* which the file is never deleted, every call after the first returns the
\* path without contacting the network.
C18_Original ==
    (call.op = "download" /\ call.repeat /\ call.file_before # "removed") =>
        ~call.network /\ ~call.raised

\* C18 amended: every call made while a file exists at the path of its
\* filename returns the path without contacting the network and leaves the
\* file as it is; a call that contacts the network found no file there.
C18_Idempotent ==
    call.op = "download" =>
        /\ Exists(call.file_before) =>
              /\ ~call.network
              /\ ~call.raised
              /\ assetFile[SafeFilename(call.filename)] = call.file_before
        /\ call.network => ~Exists(call.file_before)

\* C18 witness: a second call with the same filename, after one transfer,
\* found the complete file and sent no request
C18_Witness ==
    /\ call.op = "download"
    /\ call.repeat
    /\ call.file_before = "complete"
    /\ transfers[call.filename] = 1
    /\ ~call.network
    /\ ~call.raised

\* C19 as stated: whenever download_asset raises, no file is left at the
\* target path.
C19_NoPartialFile ==
    (call.op = "download" /\ call.raised) => ~Exists(assetFile[SafeFilename(call.filename)])

\* C20: the mask of a pixel is 0.0 exactly when all three channels differ
\* from the key colour by less than the threshold, and 1.0 otherwise; the key
\* colour of #00FF00 is (0, 255, 0), so with threshold 40 the pixel
\* (10, 250, 5) gets 0.0 and the pixel (200, 50, 50) gets 1.0.
C20_MaskRule ==
    (call.op = "mask" /\ ~call.raised) =>
        /\ call.mask \in {0, 1}
        /\ call.mask = 0 <=>
              \A c \in 1 .. 3 :
                  /\ call.pixel[c] - call.rgb[c] < call.threshold
                  /\ call.rgb[c] - call.pixel[c] < call.threshold
        /\ call.chroma_color = Green => call.rgb = <<0, 255, 0>>
        /\ (call.chroma_color = Green /\ call.threshold = 40) =>
              /\ call.pixel = <<10, 250, 5>> => call.mask = 0
              /\ call.pixel = <<200, 50, 50>> => call.mask = 1

\* C20 witness: #00FF00, threshold 40, the pixel (10, 250, 5) and the mask 0.0
C20_Witness ==
    /\ call.op = "mask"
    /\ call.chroma_color = Green
    /\ call.threshold = 40
    /\ call.pixel = <<10, 250, 5>>
    /\ call.mask = 0

\* a job that got as far as the clip loop
JobRan == call.op \in {"montage", "chroma"} /\ call.ids # <<>>

\* the clips of the call that were fetched and met no fault, in order
Survivors ==
    SelectSeq(call.ids, LAMBDA id : id \in call.fetched /\ call.run.fault[id] = "none")

\* C22: a fetch, load or effect failure on a clip removes that clip from the
\* timeline and nothing else (the loop goes on with the next clip); the job
\* reaches concatenation exactly when a clip survived; with no survivor it
\* raises before concatenation and writes no output; a failure of a later
\* stage ends the job with an error, and a job without error has its output.
C22_SkipOnlyFailedClip ==
    JobRan =>
        /\ call.timeline = Survivors
        /\ \A i \in 1 .. Len(call.ids) - 1 :
              (call.ids[i] \in call.fetched /\ call.run.fault[call.ids[i]] # "none")
              => call.ids[i + 1] \in call.fetched
        /\ call.run.end # "no_clips" <=> Survivors # <<>>
        /\ Survivors = <<>> => (call.raised /\ ~call.output /\ call.run.out = "absent")
        /\ call.run.end \in ChromaLate \ {"none"} => call.raised
        /\ call.run.end = "colour" => call.raised
        /\ ~call.raised => (call.output /\ call.run.out = "complete")

\* C22 witness: a chroma job whose first clip failed went on with the second
\* one and produced its output
C22_Witness ==
    /\ call.op = "chroma"
    /\ Len(call.ids) >= 2
    /\ call.run.fault[call.ids[1]] = "fetch_fails"
    /\ call.timeline = <<call.ids[2]>>
    /\ ~call.raised
    /\ call.run.out = "complete"

\* C23 as stated: when chroma_key_video or pexels_montage returns or raises,
\* every clip handle opened during the call has been closed.
C23_HandlesClosed ==
    call.op \in {"montage", "chroma"} => call.run.opened \subseteq call.run.closed

\* C24 as stated: whenever chroma_key_video or pexels_montage ends with an
\* error, no file exists at output_path.
C24_NoPartialOutput ==
    (call.op \in {"montage", "chroma"} /\ call.raised) => call.run.out = "absent"

\* C25 as stated: when a job has finished, none of the asset files downloaded
\* for it remains on disk.
C25_AssetsDiscarded ==
    call.op \in {"montage", "chroma"} =>
        \A id \in call.fetched :
            ~Exists(assetFile[SafeFilename(JobFilename(IF call.op = "montage"
                                                       THEN "montage_" ELSE "chroma_bg_",
                                                       id))])

\* C27 as stated: with a fade in force, the first clip of the timeline has the
\* fade-in and no other clip has it, whichever clips were skipped.
C27_FadeInFirst ==
    (call.op \in {"montage", "chroma"} /\ call.run.fading /\ call.timeline # <<>>) =>
        call.run.fadein = {Head(call.timeline)}

\* C21 as stated: with the fade effect, whenever the durations of the clips
\* of the timeline sum to at least the target (foreground duration + 2 x
\* transition), the concatenated background (that sum minus (n - 1) x
\* transition) lasts at least as long as the foreground.
C21_FadeTargetSuffices ==
    ( /\ call.op = "chroma"
      /\ call.run.fading
      /\ call.timeline # <<>>
      /\ SumDur(call.timeline, call.run.probe) >= call.target )
    => call.run.bg_duration >= call.run.fg_duration

\* C26 as stated: for a montage selection over more candidates than
\* n_videos, some other shuffle order of the same candidates yields a
\* different set of asset ids.
C26_ShuffleVaries ==
    (call.op = "montage" /\ call.path # "raised" /\ Len(call.cands) > call.max_videos) =>
        \E p \in Perms(Range(call.cands)) :
            Range(Selection(p, dur, call.before, hashSeed, call.target, call.max_videos).ids)
                # Range(call.ids)

\* C28 as stated: in every interleaving of two download_asset calls, a call
\* that returns a path returns one whose file is completely written and exists.
C28_NeverIncomplete ==
    \A j \in JobIds : jobs[j].pc = "returned" => jobs[j].got = "complete"

\* C29 as stated: a selector call that returns empty (search failure, no
\* candidate) or through the longest-first fallback leaves the ledger file as
\* it was; a call that returns through the fresh-combination path keeps every
\* key and adds one key at most, the key of the id set it returns.
C29_LedgerFrame ==
    call.op = "select" =>
        /\ call.path \in {"empty", "fallback"} => ledgerFile = call.before
        /\ call.path = "fresh" =>
              /\ LoadUsedAssets(call.before) \subseteq LoadUsedAssets(ledgerFile)
              /\ Cardinality(LoadUsedAssets(ledgerFile) \ LoadUsedAssets(call.before)) <= 1
              /\ \A k \in LoadUsedAssets(ledgerFile) \ LoadUsedAssets(call.before) :
                    Range(k) = Range(call.ids)

\* C30: for every search response, also one that lists the same video more
\* than once, the ids the selector returns are pairwise distinct, the three
\* lists have the same length, and position i of each holds the id, the url
\* and the duration of one usable entry of the response.
C30_Deduplicated ==
    (call.op = "select" /\ call.videos # <<>>) =>
        /\ \A i, j \in DOMAIN call.ids : i # j => call.ids[i] # call.ids[j]
        /\ Len(call.urls) = Len(call.ids)
        /\ Len(call.durations) = Len(call.ids)
        /\ \A i \in DOMAIN call.ids :
              \E n \in DOMAIN call.videos :
                  /\ call.videos[n].usable
                  /\ Str(call.videos[n].id) = call.ids[i]
                  /\ call.urls[i] = Url(Str(call.videos[n].id))
                  /\ call.durations[i] = dur[Str(call.videos[n].id)]

\* C30 witness: the response lists video a twice (the id once a number, once
\* a string) and video b, all usable; the call returned a and b, once each
C30_Witness ==
    /\ call.op = "select"
    /\ Len(call.videos) = 3
    /\ Cardinality({ n \in DOMAIN call.videos :
                        Str(call.videos[n].id) = "a" /\ call.videos[n].usable }) = 2
    /\ \E n \in DOMAIN call.videos : call.videos[n].id.type = "int"
    /\ Range(call.ids) = {"a", "b"}
    /\ Len(call.ids) = 2

====
